---- MODULE Spec2Model ----
(***************************************************************************)
(* chmolto/nestjs-core: the options-bag BaseService delegating to an       *)
(* injected IBaseRepository, the repository contract the adapter honours,  *)
(* and the IUnitOfWork transactional scope.                                *)
(*                                                                         *)
(* One service call is in flight at a time: the service method is invoked  *)
(* and synchronously invokes the repository (pc "idle" -> "pending"), the  *)
(* repository promise settles and the service promise adopts its outcome   *)
(* ("pending" -> "settled"), and the caller consumes the outcome           *)
(* ("settled" -> "idle").                                                  *)
(***************************************************************************)
EXTENDS Integers, Sequences, FiniteSets, TLC

VARIABLES
    store,        \* the adapter's data store: id -> field value, NoEntity when absent
    storeBefore,  \* the store as it was when the call in flight was made
    pc,           \* "idle" | "pending" | "settled": position of the one service call
    svcCall,      \* the service call in flight: method, arguments, options
    repoCall,     \* the repository call the service issued for it
    repoOutcome,  \* how the repository promise settled
    svcOutcome,   \* how the service promise settled
    svcCalls,     \* number of service calls made
    repoCalls,    \* number of repository calls made
    uow,          \* the unit of work: active transactions, staged and durable operations
    uowCall,      \* the last start/commit/rollback call: operation, state before, outcome
    execPc,       \* "idle" | "working" | "worked" | "done": position of execute(work)
    execLog,      \* what this run of execute has invoked, in order
    workOutcome,  \* how work(uow) settled
    execOutcome,  \* how execute(work) settled
    service,      \* the BaseService instance: the fields it holds
    injected,     \* the repository instance the constructor was given
    calls,        \* concurrent callers: each one's service call and the outcome it got
    issued        \* repository invocations in the order issued: caller, target, outcome

svcVars == <<store, storeBefore, pc, svcCall, repoCall, repoOutcome, svcOutcome, svcCalls, repoCalls>>
uowVars == <<uow, uowCall, execPc, execLog, workOutcome, execOutcome>>
conVars == <<service, injected, calls, issued>>
vars == <<svcVars, uowVars, conVars>>

----------------------------------------------------------------------------
(* Bounds *)

MaxId == 2
MaxCalls == 2
MaxPage == 2
MaxLimit == 2
MaxOps == 2
MaxPending == 2

----------------------------------------------------------------------------
(* Values *)

Ids == 1..MaxId

\* An entity is an identifier and one numeric field (an "age").
Vals == {1, 2}

\* store[id] of an id that is not in the store.
NoEntity == 0

\* A CreateDTO the adapter rejects.
InvalidDto == 0

\* The absent value of an optional numeric property (page?, limit?, search?).
Unset == 0

\* SearchRequest defaults.
DefaultPage == 1
DefaultLimit == 10

\* options?: OperationOptions<Transaction>.  Undefined is a call made without
\* the options argument; every property of a bag is optional.
Undefined == [bag |-> "undefined", populate |-> "unset",
              raiseException |-> "unset", transaction |-> "unset"]

OperationOptions ==
    {Undefined} \cup
    [bag : {"object"}, populate : {"unset", "true"},
     raiseException : {"unset", "true", "false"},
     transaction : {"unset", "tx"}]

\* filters: Record<string, any>, as a set of <<field, value>> pairs.
Filters == {{}} \cup {{<<"val", v>>} : v \in Vals}

\* SearchRequest.filters: Record<string, {value, operator}>, as a set of
\* <<field, operator, value>> triples.
SearchFilters == {{}, {<<"val", "greaterThan", 1>>}, {<<"val", "equals", 1>>}}

SearchRequest ==
    [page : 0..MaxPage, limit : 0..MaxLimit, sortBy : {"unset", "val"},
     sortOrder : {"asc", "desc"}, search : {Unset, 2}, filters : SearchFilters]

NoCall == [method |-> "none", args |-> <<>>, options |-> Undefined]
NoOutcome == [kind |-> "none", val |-> "none"]

Entity(st, id) == [id |-> id, val |-> st[id]]
Present(st) == {i \in Ids : st[i] # NoEntity}
Entities(st) == {Entity(st, i) : i \in Present(st)}

Ok(kind, val) == [kind |-> kind, val |-> val]
Err(name) == [kind |-> "error", val |-> name]
Null == [kind |-> "null", val |-> "null"]

----------------------------------------------------------------------------
(* BaseService (options-bag style).  Each method is the sequence of        *)
(* repository invocations its body makes: `return this.repository.m(...)`. *)

Invocation(method, args, options) ==
    [method |-> method, args |-> args, options |-> options]

\* create validating the DTO itself and skipping the repository on a bad one.
create_validating(createDto, options) ==
    IF createDto = InvalidDto THEN <<>>
    ELSE <<Invocation("create", <<createDto>>, options)>>

create(createDto, options) ==
    <<Invocation("create", <<createDto>>, options)>>

findAll(options) ==
    <<Invocation("findAll", <<>>, options)>>

findMany(filters, options) ==
    <<Invocation("findMany", <<filters>>, options)>>

\* findOne delegating to the filter-keyed repository method of the same name.
findOne_sameName(id, options) ==
    <<Invocation("findOne", <<id>>, options)>>

findOne(id, options) ==
    <<Invocation("findById", <<id>>, options)>>

findOneBy(filters, options) ==
    <<Invocation("findOne", <<filters>>, options)>>

update(id, updateDto, options) ==
    <<Invocation("updateById", <<id, updateDto>>, options)>>

delete(id, options) ==
    <<Invocation("deleteById", <<id>>, options)>>

deleteMany(ids, options) ==
    <<Invocation("deleteMany", <<ids>>, options)>>

\* The body passes searchRequest alone: the repository's options parameter,
\* if it has one, receives undefined.
findByPagination(searchRequest, options) ==
    <<Invocation("findByPagination", <<searchRequest>>, Undefined)>>

\* A service that catches the repository's rejection and resolves with null.
ServiceResult_catching(outcome) ==
    IF outcome.kind = "error" THEN Null ELSE outcome

\* An async method that returns the repository's promise settles as that
\* promise settles: same value, same rejection.
ServiceResult(outcome) == outcome

----------------------------------------------------------------------------
(* The repository contract, as an adapter over `store` honours it.  Each   *)
(* operation yields the outcome of its promise and the store it leaves.    *)

Result(outcome, st) == [outcome |-> outcome, store |-> st]

Matches(e, filters) == \A f \in filters : e[f[1]] = f[2]

\* The entities of S in ascending id order.
ById(S) ==
    [i \in 1..Cardinality(S) |->
        CHOOSE e \in S : Cardinality({x \in S : x.id < e.id}) = i - 1]

FreeIds(st) == Ids \ Present(st)

repository_create(st, createDto, options) ==
    IF createDto = InvalidDto THEN Result(Err("ValidationError"), st)
    ELSE IF FreeIds(st) = {} THEN Result(Err("AdapterError"), st)
    ELSE LET id == CHOOSE i \in FreeIds(st) : \A j \in FreeIds(st) : i <= j
             st2 == [st EXCEPT ![id] = createDto]
         IN  Result(Ok("entity", Entity(st2, id)), st2)

repository_findAll(st, options) ==
    Result(Ok("list", ById(Entities(st))), st)

repository_findMany(st, filters, options) ==
    Result(Ok("list", ById({e \in Entities(st) : Matches(e, filters)})), st)

\* findById that never raises, whatever raiseException says.
repository_findById_neverRaises(st, id, options) ==
    IF id \in Present(st) THEN Result(Ok("entity", Entity(st, id)), st)
    ELSE Result(Null, st)

\* "@returns the entity or null if not found (and raiseException is false)".
repository_findById(st, id, options) ==
    IF id \in Present(st) THEN Result(Ok("entity", Entity(st, id)), st)
    ELSE IF options.raiseException = "true" THEN Result(Err("NotFoundError"), st)
    ELSE Result(Null, st)

repository_findOne(st, filters, options) ==
    LET found == {e \in Entities(st) : Matches(e, filters)}
    IN  IF found # {} THEN Result(Ok("entity", ById(found)[1]), st)
        ELSE IF options.raiseException = "true" THEN Result(Err("NotFoundError"), st)
        ELSE Result(Null, st)

\* updateById that inserts the entity when the id is not in the store.
repository_updateById_upsert(st, id, updateDto, options) ==
    LET st2 == [st EXCEPT ![id] = updateDto]
    IN  Result(Ok("entity", Entity(st2, id)), st2)

\* raiseException: "ex. updateById doesnt find id".
repository_updateById(st, id, updateDto, options) ==
    IF id \in Present(st)
    THEN LET st2 == [st EXCEPT ![id] = updateDto]
         IN  Result(Ok("entity", Entity(st2, id)), st2)
    ELSE IF options.raiseException = "true" THEN Result(Err("NotFoundError"), st)
    ELSE Result(Null, st)

repository_deleteById(st, id, options) ==
    IF id \in Present(st)
    THEN Result(Ok("message", 1), [st EXCEPT ![id] = NoEntity])
    ELSE Result(Err("NotFoundError"), st)

\* Best effort: the message carries the number of entities deleted.
repository_deleteMany(st, ids, options) ==
    Result(Ok("message", Cardinality(ids \cap Present(st))),
           [i \in Ids |-> IF i \in ids THEN NoEntity ELSE st[i]])

----------------------------------------------------------------------------
(* findByPagination: filter (structured filters and the free-text search), *)
(* then sort, then the page/limit window.                                  *)

OperatorHolds(operator, fieldValue, value) ==
    CASE operator = "equals" -> fieldValue = value
      [] operator = "lessThan" -> fieldValue < value
      [] operator = "greaterThan" -> fieldValue > value
      [] OTHER -> FALSE

\* The free-text match is the adapter's: here a term matches the entity whose
\* searchable field equals it.
SearchMatches(e, search) == search = Unset \/ e.val = search

Selected(st, searchRequest) ==
    {e \in Entities(st) :
        /\ \A f \in searchRequest.filters : OperatorHolds(f[2], e[f[1]], f[3])
        /\ SearchMatches(e, searchRequest.search)}

SortKey(e, sortBy) ==
    IF sortBy = "val" THEN e.val * (MaxId + 1) + e.id ELSE e.id

Before(x, e, sortBy, sortOrder) ==
    IF sortOrder = "desc" THEN SortKey(x, sortBy) > SortKey(e, sortBy)
    ELSE SortKey(x, sortBy) < SortKey(e, sortBy)

Sorted(S, sortBy, sortOrder) ==
    [i \in 1..Cardinality(S) |->
        CHOOSE e \in S :
            Cardinality({x \in S : Before(x, e, sortBy, sortOrder)}) = i - 1]

EffectivePage(searchRequest) ==
    IF searchRequest.page = Unset THEN DefaultPage ELSE searchRequest.page

EffectiveLimit(searchRequest) ==
    IF searchRequest.limit = Unset THEN DefaultLimit ELSE searchRequest.limit

\* floor(total / limit): the last, partial page is not counted.
PageCount_floor(total, limit) == total \div limit

\* ceil(total / limit)
PageCount(total, limit) == (total + limit - 1) \div limit

Window(seq, page, limit) ==
    LET first == (page - 1) * limit + 1
        last == IF page * limit < Len(seq) THEN page * limit ELSE Len(seq)
    IN  SubSeq(seq, first, last)

repository_findByPagination(st, searchRequest) ==
    LET page == EffectivePage(searchRequest)
        limit == EffectiveLimit(searchRequest)
        hits == Sorted(Selected(st, searchRequest),
                       searchRequest.sortBy, searchRequest.sortOrder)
    IN  Result(Ok("page", [data |-> Window(hits, page, limit),
                           page |-> page,
                           limit |-> limit,
                           totalPages |-> PageCount(Len(hits), limit),
                           total |-> Len(hits)]),
               st)

\* The repository method a recorded invocation names, applied to the store.
Execute(call, st) ==
    CASE call.method = "create" ->
            repository_create(st, call.args[1], call.options)
      [] call.method = "findAll" ->
            repository_findAll(st, call.options)
      [] call.method = "findMany" ->
            repository_findMany(st, call.args[1], call.options)
      [] call.method = "findById" ->
            repository_findById(st, call.args[1], call.options)
      [] call.method = "findOne" ->
            repository_findOne(st, call.args[1], call.options)
      [] call.method = "updateById" ->
            repository_updateById(st, call.args[1], call.args[2], call.options)
      [] call.method = "deleteById" ->
            repository_deleteById(st, call.args[1], call.options)
      [] call.method = "deleteMany" ->
            repository_deleteMany(st, call.args[1], call.options)
      [] call.method = "findByPagination" ->
            repository_findByPagination(st, call.args[1])

----------------------------------------------------------------------------
(* IUnitOfWork.  `u` is the state of one instance: the number of           *)
(* transactions active on it, the operations issued against the handle     *)
(* since start(), and the operations durably applied.                      *)

Void == [kind |-> "void", val |-> "void"]

UowResult(outcome, u) == [outcome |-> outcome, uow |-> u]

NoUowCall == [op |-> "none",
              before |-> [active |-> 0, staged |-> 0, durable |-> 0],
              after |-> [active |-> 0, staged |-> 0, durable |-> 0],
              outcome |-> NoOutcome]

\* start() that begins a transaction without looking for an active one.
start_unchecked(u) ==
    UowResult(Void, [u EXCEPT !.active = u.active + 1, !.staged = 0])

start(u) ==
    IF u.active > 0 THEN UowResult(Err("TransactionStateError"), u)
    ELSE UowResult(Void, [u EXCEPT !.active = u.active + 1, !.staged = 0])

commit(u) ==
    IF u.active = 0 THEN UowResult(Err("TransactionStateError"), u)
    ELSE UowResult(Void, [active |-> u.active - 1, staged |-> 0,
                          durable |-> u.durable + u.staged])

rollback(u) ==
    IF u.active = 0 THEN UowResult(Err("TransactionStateError"), u)
    ELSE UowResult(Void, [u EXCEPT !.active = u.active - 1, !.staged = 0])

UowApply(op, u) ==
    CASE op = "start" -> start(u)
      [] op = "commit" -> commit(u)
      [] op = "rollback" -> rollback(u)

\* The state a sequence of calls leaves, outcomes ignored.
RECURSIVE UowApplyAll(_, _)
UowApplyAll(ops, u) ==
    IF ops = <<>> THEN u
    ELSE UowApplyAll(Tail(ops), UowApply(Head(ops), u).uow)

\* execute(work) with the rollback in a finally block: it runs after the
\* commit too.
ExecuteCompletion_finally(outcome) ==
    IF outcome.kind = "error" THEN <<"rollback">> ELSE <<"commit", "rollback">>

\* execute(work), once work has settled: commit on normal return, rollback
\* if work failed.
ExecuteCompletion(outcome) ==
    IF outcome.kind = "error" THEN <<"rollback">> ELSE <<"commit">>

\* execute(work) throwing an error of its own in place of work's failure.
ExecuteOutcome_wrapping(outcome) ==
    IF outcome.kind = "error" THEN Err("TransactionStateError") ELSE outcome

\* execute(work) resolves with work's value, or rethrows work's failure.
ExecuteOutcome(outcome) == outcome

WorkOutcomes ==
    {Ok("value", v) : v \in Vals} \cup {Err("WorkError"), Err("NotFoundError")}

----------------------------------------------------------------------------
(* The BaseService instance *)

Repositories == {"repositoryA", "repositoryB"}

\* constructor(protected readonly repository): the instance holds the
\* reference and nothing else.
constructor(repository) == [repository |-> repository]

\* A method body that swaps in another repository before it returns.
AfterCall_swapping(svc) == [svc EXCEPT !.repository = "repositoryB"]

\* The instance once a method body has run: no method assigns a field.
AfterCall(svc) == svc

\* No concurrent callers; the instance as constructed.
ConcurrentIdle ==
    /\ injected = "repositoryA"
    /\ service = constructor(injected)
    /\ calls = <<>>
    /\ issued = <<>>

----------------------------------------------------------------------------
(* Actions *)

UowInit ==
    /\ uow = [active |-> 0, staged |-> 0, durable |-> 0]
    /\ uowCall = NoUowCall
    /\ execPc = "idle"
    /\ execLog = <<>>
    /\ workOutcome = NoOutcome
    /\ execOutcome = NoOutcome

ServiceInit ==
    /\ pc = "idle"
    /\ svcCall = NoCall
    /\ repoCall = NoCall
    /\ repoOutcome = NoOutcome
    /\ svcOutcome = NoOutcome
    /\ svcCalls = 0
    /\ repoCalls = 0

Init ==
    /\ store \in [Ids -> {NoEntity} \cup Vals]
    /\ storeBefore = store
    /\ ServiceInit
    /\ UowInit
    /\ ConcurrentIdle

\* No call is in flight and the caller has calls left to make.
CanInvoke == pc = "idle" /\ svcCalls < MaxCalls

\* A caller invokes a service method; the method body runs to its return
\* statement, invoking the repository on the way.
Invoke(method, args, options, invocations) ==
    /\ svcCall' = Invocation(method, args, options)
    /\ repoCall' = IF invocations = <<>> THEN NoCall ELSE invocations[Len(invocations)]
    /\ svcCalls' = svcCalls + 1
    /\ repoCalls' = repoCalls + Len(invocations)
    /\ pc' = "pending"
    /\ storeBefore' = store
    /\ UNCHANGED <<store, repoOutcome, svcOutcome>>
    /\ UNCHANGED <<uowVars, conVars>>

Create ==
    /\ CanInvoke
    /\ \E createDto \in {InvalidDto} \cup Vals, options \in OperationOptions :
           Invoke("create", <<createDto>>, options, create(createDto, options))

FindAll ==
    /\ CanInvoke
    /\ \E options \in OperationOptions :
           Invoke("findAll", <<>>, options, findAll(options))

FindMany ==
    /\ CanInvoke
    /\ \E filters \in Filters, options \in OperationOptions :
           Invoke("findMany", <<filters>>, options, findMany(filters, options))

FindOne ==
    /\ CanInvoke
    /\ \E id \in Ids, options \in OperationOptions :
           Invoke("findOne", <<id>>, options, findOne(id, options))

FindOneBy ==
    /\ CanInvoke
    /\ \E filters \in Filters, options \in OperationOptions :
           Invoke("findOneBy", <<filters>>, options, findOneBy(filters, options))

Update ==
    /\ CanInvoke
    /\ \E id \in Ids, updateDto \in Vals, options \in OperationOptions :
           Invoke("update", <<id, updateDto>>, options, update(id, updateDto, options))

Delete ==
    /\ CanInvoke
    /\ \E id \in Ids, options \in OperationOptions :
           Invoke("delete", <<id>>, options, delete(id, options))

DeleteMany ==
    /\ CanInvoke
    /\ \E ids \in SUBSET Ids, options \in OperationOptions :
           Invoke("deleteMany", <<ids>>, options, deleteMany(ids, options))

FindByPagination ==
    /\ CanInvoke
    /\ \E searchRequest \in SearchRequest, options \in OperationOptions :
           Invoke("findByPagination", <<searchRequest>>, options,
                  findByPagination(searchRequest, options))

\* The repository promise settles as the contract says, and the service
\* promise with it.
RepositorySettles ==
    /\ pc = "pending"
    /\ repoCall # NoCall
    /\ LET r == Execute(repoCall, store)
       IN  /\ store' = r.store
           /\ repoOutcome' = r.outcome
           /\ svcOutcome' = ServiceResult(r.outcome)
    /\ pc' = "settled"
    /\ UNCHANGED <<storeBefore, svcCall, repoCall, svcCalls, repoCalls>>
    /\ UNCHANGED <<uowVars, conVars>>

\* Any repository call may fail for the adapter's own reasons (connectivity).
RepositoryFails ==
    /\ pc = "pending"
    /\ repoCall # NoCall
    /\ repoOutcome' = Err("AdapterError")
    /\ svcOutcome' = ServiceResult(Err("AdapterError"))
    /\ pc' = "settled"
    /\ UNCHANGED <<store, storeBefore, svcCall, repoCall, svcCalls, repoCalls>>
    /\ UNCHANGED <<uowVars, conVars>>

\* The caller's await completes: it has the outcome.
Return ==
    /\ pc = "settled"
    /\ pc' = "idle"
    /\ svcCall' = NoCall
    /\ repoCall' = NoCall
    /\ repoOutcome' = NoOutcome
    /\ svcOutcome' = NoOutcome
    /\ storeBefore' = store
    /\ UNCHANGED <<store, svcCalls, repoCalls>>
    /\ UNCHANGED <<uowVars, conVars>>

Next ==
    \/ Create
    \/ FindAll
    \/ FindMany
    \/ FindOne
    \/ FindOneBy
    \/ Update
    \/ Delete
    \/ DeleteMany
    \/ FindByPagination
    \/ RepositorySettles
    \/ RepositoryFails
    \/ Return

Spec == Init /\ [][Next]_vars

----------------------------------------------------------------------------
(* Unit-of-work actions.  execute runs atomically with respect to the      *)
(* manual calls: those are made only while no execute is in flight.        *)

ManualCall(op) ==
    /\ LET r == UowApply(op, uow)
       IN  /\ uow' = r.uow
           /\ uowCall' = [op |-> op, before |-> uow, after |-> r.uow,
                          outcome |-> r.outcome]
    /\ UNCHANGED <<execPc, execLog, workOutcome, execOutcome>>
    /\ UNCHANGED <<svcVars, conVars>>

Start ==
    /\ execPc = "idle"
    /\ ManualCall("start")

Commit ==
    /\ execPc = "idle"
    /\ ManualCall("commit")

Rollback ==
    /\ execPc = "idle"
    /\ ManualCall("rollback")

\* An operation is issued against the transaction handle.
IssueOperation ==
    /\ uow.active > 0
    /\ execPc \in {"idle", "working"}
    /\ uow.durable + uow.staged < MaxOps
    /\ uow' = [uow EXCEPT !.staged = uow.staged + 1]
    /\ UNCHANGED <<uowCall, execPc, execLog, workOutcome, execOutcome>>
    /\ UNCHANGED <<svcVars, conVars>>

\* execute(work) is called: it runs start() and, if that succeeded, invokes
\* work(uow).
ExecuteStart ==
    /\ execPc = "idle"
    /\ LET r == start(uow)
       IN  /\ uow' = r.uow
           /\ IF r.outcome.kind = "error"
              THEN /\ execLog' = <<"start">>
                   /\ execOutcome' = r.outcome
                   /\ execPc' = "done"
              ELSE /\ execLog' = <<"start", "work">>
                   /\ execOutcome' = NoOutcome
                   /\ execPc' = "working"
    /\ workOutcome' = NoOutcome
    /\ UNCHANGED uowCall
    /\ UNCHANGED <<svcVars, conVars>>

\* work(uow) resolves or fails.
WorkSettles ==
    /\ execPc = "working"
    /\ \E outcome \in WorkOutcomes : workOutcome' = outcome
    /\ execPc' = "worked"
    /\ UNCHANGED <<uow, uowCall, execLog, execOutcome>>
    /\ UNCHANGED <<svcVars, conVars>>

\* execute commits or rolls back and settles.
ExecuteFinish ==
    /\ execPc = "worked"
    /\ LET ops == ExecuteCompletion(workOutcome)
       IN  /\ uow' = UowApplyAll(ops, uow)
           /\ execLog' = execLog \o ops
    /\ execOutcome' = ExecuteOutcome(workOutcome)
    /\ execPc' = "done"
    /\ UNCHANGED <<uowCall, workOutcome>>
    /\ UNCHANGED <<svcVars, conVars>>

\* The caller of execute has its outcome.
ExecuteReturn ==
    /\ execPc = "done"
    /\ execPc' = "idle"
    /\ execLog' = <<>>
    /\ workOutcome' = NoOutcome
    /\ execOutcome' = NoOutcome
    /\ UNCHANGED <<uow, uowCall>>
    /\ UNCHANGED <<svcVars, conVars>>

InitUow ==
    /\ store = [i \in Ids |-> NoEntity]
    /\ storeBefore = store
    /\ ServiceInit
    /\ UowInit
    /\ ConcurrentIdle

NextUow ==
    \/ Start
    \/ Commit
    \/ Rollback
    \/ IssueOperation
    \/ ExecuteStart
    \/ WorkSettles
    \/ ExecuteFinish
    \/ ExecuteReturn

SpecUow == InitUow /\ [][NextUow]_vars

----------------------------------------------------------------------------
(* Claims about BaseService, checked under Spec *)

InFlight == pc \in {"pending", "settled"}

Settled(method) == pc = "settled" /\ svcCall.method = method

\* The repository failed for its own reasons, not by its contract.
AdapterFailed == repoOutcome.kind = "error" /\ repoOutcome.val = "AdapterError"

RepositoryMethodOf(method) ==
    CASE method = "create" -> "create"
      [] method = "findAll" -> "findAll"
      [] method = "findMany" -> "findMany"
      [] method = "findOne" -> "findById"
      [] method = "findOneBy" -> "findOne"
      [] method = "update" -> "updateById"
      [] method = "delete" -> "deleteById"
      [] method = "deleteMany" -> "deleteMany"
      [] method = "findByPagination" -> "findByPagination"

\* C1: every service call invokes its one matching repository method with
\* the id/DTO/filter/searchRequest arguments it received, in the same order.
C1_Delegation ==
    InFlight =>
        /\ repoCall.method = RepositoryMethodOf(svcCall.method)
        /\ repoCall.args = svcCall.args

C1_Witness ==
    /\ Settled("update")
    /\ svcCall.args = <<2, 1>>
    /\ repoCall.method = "updateById"
    /\ repoCall.args = <<2, 1>>

\* C2: the options value the repository call receives is the options value
\* the service call was given, for every method including findByPagination.
C2_OptionsForwarded ==
    InFlight => repoCall.options = svcCall.options

\* C3: one repository call per service call, failing or not, and a
\* successful service call returns exactly what its repository call returned.
C3_NoExtraLogic ==
    /\ repoCalls = svcCalls
    /\ (pc = "settled" /\ repoOutcome.kind # "error") =>
            /\ svcOutcome.kind = repoOutcome.kind
            /\ svcOutcome.val = repoOutcome.val

C3_Witness ==
    /\ Settled("create")
    /\ svcCalls = 2
    /\ repoCalls = 2
    /\ repoOutcome.kind = "entity"
    /\ svcOutcome.kind = "entity"

\* C4: when the repository call fails with an error, the service call fails
\* with that same error.
C4_ErrorsPropagate ==
    (pc = "settled" /\ repoOutcome.kind = "error") =>
        /\ svcOutcome.kind = "error"
        /\ svcOutcome.val = repoOutcome.val

C4_Witness ==
    /\ Settled("create")
    /\ repoOutcome = Err("ValidationError")
    /\ svcOutcome = Err("ValidationError")

NothingFound ==
    \/ /\ Settled("findOne")
       /\ svcCall.args[1] \notin Present(storeBefore)
    \/ /\ Settled("findOneBy")
       /\ \A e \in Entities(storeBefore) : ~Matches(e, svcCall.args[1])

C9_NotFoundContract ==
    (NothingFound /\ ~AdapterFailed) =>
        IF svcCall.options.raiseException = "true"
        THEN svcOutcome.kind = "error" /\ svcOutcome.val = "NotFoundError"
        ELSE svcOutcome.kind = "null"

C9_Witness ==
    /\ Settled("findOne")
    /\ svcCall.args[1] \notin Present(storeBefore)
    /\ svcCall.options.raiseException = "true"
    /\ svcOutcome = Err("NotFoundError")

\* C10: for a searchRequest with limit > 0, the page returned through
\* findByPagination has at most limit items and totalPages = ceil(total /
\* limit), total being the number of entities matching filters and search;
\* 47 matches at limit 10 are 5 pages.
C10_PaginationResult ==
    (Settled("findByPagination") /\ svcOutcome.kind = "page") =>
        LET r == svcOutcome.val
            searchRequest == svcCall.args[1]
        IN  /\ searchRequest.limit > 0 => r.limit = searchRequest.limit
            /\ r.limit > 0
            /\ Len(r.data) <= r.limit
            /\ r.total = Cardinality(Selected(storeBefore, searchRequest))
            /\ r.totalPages * r.limit >= r.total
            /\ (r.totalPages - 1) * r.limit < r.total
            /\ PageCount(47, 10) = 5

C10_Witness ==
    /\ Settled("findByPagination")
    /\ svcOutcome.kind = "page"
    /\ svcCall.args[1].limit = 1
    /\ svcOutcome.val.total = 2
    /\ svcOutcome.val.totalPages = 2
    /\ Len(svcOutcome.val.data) = 1

----------------------------------------------------------------------------
(* Claims about IUnitOfWork, checked under SpecUow *)

Invoked(op) == Cardinality({i \in DOMAIN execLog : execLog[i] = op})

\* This run of execute got past start(): the transaction began and work was
\* invoked.
Began == Len(execLog) >= 2

\* C5: in every run of execute, after start() exactly one of commit() and
\* rollback() is invoked: commit() and no rollback() if work resolved,
\* rollback() and no commit() if work failed.
C5_CommitOrRollback ==
    /\ (execPc = "done" /\ Began) =>
            /\ Invoked("commit") + Invoked("rollback") = 1
            /\ workOutcome.kind = "error" <=> Invoked("rollback") = 1
            /\ workOutcome.kind # "error" <=> Invoked("commit") = 1
    /\ execPc \in {"working", "worked"} =>
            Invoked("commit") + Invoked("rollback") = 0

C5_Witness ==
    /\ execPc = "done"
    /\ workOutcome.kind = "value"
    /\ execLog = <<"start", "work", "commit">>
    /\ uow.durable = 2

\* C6: execute invokes start(), then work(uow), then commit() or rollback();
\* when work fails, rollback() has been invoked by the time the failure
\* reaches the caller, and the failure is the one work raised.
C6_OrderAndRethrow ==
    /\ \E last \in {"commit", "rollback"} :
            \E n \in 0..3 : execLog = SubSeq(<<"start", "work", last>>, 1, n)
    /\ (execOutcome.kind = "error" /\ Began) =>
            /\ execLog = <<"start", "work", "rollback">>
            /\ uow.active = 0
            /\ uow.staged = 0
            /\ workOutcome.kind = "error"
            /\ execOutcome.val = workOutcome.val

C6_Witness ==
    /\ execPc = "done"
    /\ workOutcome = Err("WorkError")
    /\ execOutcome = Err("WorkError")
    /\ execLog = <<"start", "work", "rollback">>
    /\ uow = [active |-> 0, staged |-> 0, durable |-> 1]

\* C7: start() fails when a transaction is active, commit() and rollback()
\* fail when none is, a failing call leaves the instance as it was, and at
\* most one transaction is active at any time.
C7_TransactionState ==
    /\ uow.active <= 1
    /\ (uowCall.op = "start" /\ uowCall.before.active > 0) =>
            uowCall.outcome.kind = "error"
    /\ (uowCall.op \in {"commit", "rollback"} /\ uowCall.before.active = 0) =>
            uowCall.outcome.kind = "error"
    /\ uowCall.outcome.kind = "error" =>
            /\ uowCall.outcome.val = "TransactionStateError"
            /\ uowCall.after = uowCall.before
    /\ (execPc = "done" /\ ~Began) =>
            /\ execOutcome.kind = "error"
            /\ execOutcome.val = "TransactionStateError"

C7_Witness ==
    /\ uowCall.op = "start"
    /\ uowCall.before.active = 1
    /\ uowCall.outcome = Err("TransactionStateError")
    /\ uow.active = 1

----------------------------------------------------------------------------
(* BaseService (positional style): populate and raiseException are         *)
(* trailing booleans, and the repository interface takes them the same     *)
(* way.  An omitted boolean is "unset".                                    *)

Tristate == {"unset", "true", "false"}

\* findAll(filters?): the filters argument left out.
UndefinedFilters == {<<"undefined", 0>>}

positional_create(createDto, populate) ==
    <<Invocation("create", <<createDto, populate>>, Undefined)>>

positional_findAll(filters, populate) ==
    <<Invocation("findAll", <<filters, populate>>, Undefined)>>

\* findOne passing its two booleans in the wrong order.
positional_findOne_swapped(id, populate, raiseException) ==
    <<Invocation("findOne", <<id, raiseException, populate>>, Undefined)>>

positional_findOne(id, populate, raiseException) ==
    <<Invocation("findOne", <<id, populate, raiseException>>, Undefined)>>

positional_findOneBy(filters, populate, raiseException) ==
    <<Invocation("findOneBy", <<filters, populate, raiseException>>, Undefined)>>

positional_update(id, updateDto, populate) ==
    <<Invocation("update", <<id, updateDto, populate>>, Undefined)>>

positional_delete(id) ==
    <<Invocation("delete", <<id>>, Undefined)>>

positional_deleteMany(ids) ==
    <<Invocation("deleteMany", <<ids>>, Undefined)>>

positional_findByPagination(searchRequest) ==
    <<Invocation("findByPagination", <<searchRequest>>, Undefined)>>

\* The adapter behind the positional interface is the same adapter: the
\* booleans it is handed are the options it works with.
Given(populate, raiseException) ==
    [bag |-> "object", populate |-> populate,
     raiseException |-> raiseException, transaction |-> "unset"]

ExecutePositional(call, st) ==
    CASE call.method = "create" ->
            repository_create(st, call.args[1], Given(call.args[2], "unset"))
      [] call.method = "findAll" ->
            IF call.args[1] = UndefinedFilters
            THEN repository_findAll(st, Given(call.args[2], "unset"))
            ELSE repository_findMany(st, call.args[1], Given(call.args[2], "unset"))
      [] call.method = "findOne" ->
            repository_findById(st, call.args[1], Given(call.args[2], call.args[3]))
      [] call.method = "findOneBy" ->
            repository_findOne(st, call.args[1], Given(call.args[2], call.args[3]))
      [] call.method = "update" ->
            repository_updateById(st, call.args[1], call.args[2],
                                  Given(call.args[3], "unset"))
      [] call.method = "delete" ->
            repository_deleteById(st, call.args[1], Undefined)
      [] call.method = "deleteMany" ->
            repository_deleteMany(st, call.args[1], Undefined)
      [] call.method = "findByPagination" ->
            repository_findByPagination(st, call.args[1])

PositionalCreate ==
    /\ CanInvoke
    /\ \E createDto \in {InvalidDto} \cup Vals, populate \in Tristate :
           Invoke("create", <<createDto, populate>>, Undefined,
                  positional_create(createDto, populate))

PositionalFindAll ==
    /\ CanInvoke
    /\ \E filters \in {UndefinedFilters} \cup Filters, populate \in Tristate :
           Invoke("findAll", <<filters, populate>>, Undefined,
                  positional_findAll(filters, populate))

PositionalFindOne ==
    /\ CanInvoke
    /\ \E id \in Ids, populate \in Tristate, raiseException \in Tristate :
           Invoke("findOne", <<id, populate, raiseException>>, Undefined,
                  positional_findOne(id, populate, raiseException))

PositionalFindOneBy ==
    /\ CanInvoke
    /\ \E filters \in Filters, populate \in Tristate, raiseException \in Tristate :
           Invoke("findOneBy", <<filters, populate, raiseException>>, Undefined,
                  positional_findOneBy(filters, populate, raiseException))

PositionalUpdate ==
    /\ CanInvoke
    /\ \E id \in Ids, updateDto \in Vals, populate \in Tristate :
           Invoke("update", <<id, updateDto, populate>>, Undefined,
                  positional_update(id, updateDto, populate))

PositionalDelete ==
    /\ CanInvoke
    /\ \E id \in Ids :
           Invoke("delete", <<id>>, Undefined, positional_delete(id))

PositionalDeleteMany ==
    /\ CanInvoke
    /\ \E ids \in SUBSET Ids :
           Invoke("deleteMany", <<ids>>, Undefined, positional_deleteMany(ids))

PositionalFindByPagination ==
    /\ CanInvoke
    /\ \E searchRequest \in SearchRequest :
           Invoke("findByPagination", <<searchRequest>>, Undefined,
                  positional_findByPagination(searchRequest))

PositionalSettles ==
    /\ pc = "pending"
    /\ repoCall # NoCall
    /\ LET r == ExecutePositional(repoCall, store)
       IN  /\ store' = r.store
           /\ repoOutcome' = r.outcome
           /\ svcOutcome' = ServiceResult(r.outcome)
    /\ pc' = "settled"
    /\ UNCHANGED <<storeBefore, svcCall, repoCall, svcCalls, repoCalls>>
    /\ UNCHANGED <<uowVars, conVars>>

NextPositional ==
    \/ PositionalCreate
    \/ PositionalFindAll
    \/ PositionalFindOne
    \/ PositionalFindOneBy
    \/ PositionalUpdate
    \/ PositionalDelete
    \/ PositionalDeleteMany
    \/ PositionalFindByPagination
    \/ PositionalSettles
    \/ RepositoryFails
    \/ Return

SpecPositional == Init /\ [][NextPositional]_vars

----------------------------------------------------------------------------
(* Claims about the positional style, checked under SpecPositional *)

\* An options bag that sets only populate and/or raiseException.
PopulateRaiseBags ==
    {Undefined} \cup
    [bag : {"object"}, populate : Tristate, raiseException : Tristate,
     transaction : {"unset"}]

OnlyBag(populate, raiseException) ==
    IF populate = "unset" /\ raiseException = "unset" THEN Undefined
    ELSE [bag |-> "object", populate |-> populate,
          raiseException |-> raiseException, transaction |-> "unset"]

\* The options-bag call that stands for a positional call: same id, DTO or
\* filter arguments, the booleans moved into a bag.
BagCallFor(call) ==
    CASE call.method = "create" ->
            create(call.args[1], OnlyBag(call.args[2], "unset"))
      [] call.method = "findAll" ->
            IF call.args[1] = UndefinedFilters
            THEN findAll(OnlyBag(call.args[2], "unset"))
            ELSE findMany(call.args[1], OnlyBag(call.args[2], "unset"))
      [] call.method = "findOne" ->
            findOne(call.args[1], OnlyBag(call.args[2], call.args[3]))
      [] call.method = "findOneBy" ->
            findOneBy(call.args[1], OnlyBag(call.args[2], call.args[3]))
      [] call.method = "update" ->
            update(call.args[1], call.args[2], OnlyBag(call.args[3], "unset"))
      [] call.method = "delete" ->
            delete(call.args[1], Undefined)
      [] call.method = "deleteMany" ->
            deleteMany(call.args[1], Undefined)
      [] call.method = "findByPagination" ->
            findByPagination(call.args[1], Undefined)

\* What a positional repository invocation asks of the adapter, in the
\* options-bag interface's terms.
Reached(operation, args, populate, raiseException) ==
    [operation |-> operation, args |-> args, populate |-> populate,
     raiseException |-> raiseException]

PositionalReach(call) ==
    CASE call.method = "create" ->
            Reached("create", <<call.args[1]>>, call.args[2], "unset")
      [] call.method = "findAll" ->
            IF call.args[1] = UndefinedFilters
            THEN Reached("findAll", <<>>, call.args[2], "unset")
            ELSE Reached("findMany", <<call.args[1]>>, call.args[2], "unset")
      [] call.method = "findOne" ->
            Reached("findById", <<call.args[1]>>, call.args[2], call.args[3])
      [] call.method = "findOneBy" ->
            Reached("findOne", <<call.args[1]>>, call.args[2], call.args[3])
      [] call.method = "update" ->
            Reached("updateById", <<call.args[1], call.args[2]>>, call.args[3], "unset")
      [] call.method = "delete" ->
            Reached("deleteById", <<call.args[1]>>, "unset", "unset")
      [] call.method = "deleteMany" ->
            Reached("deleteMany", <<call.args[1]>>, "unset", "unset")
      [] call.method = "findByPagination" ->
            Reached("findByPagination", <<call.args[1]>>, "unset", "unset")

\* C11: every positional call has an options-bag call, its bag setting only
\* populate and/or raiseException, that reaches the repository with the same
\* operation, the same id/DTO/filter arguments and the same populate and
\* raiseException values.
C11_PositionalIsSubset ==
    InFlight =>
        LET bag == BagCallFor(svcCall)
            reach == PositionalReach(repoCall)
        IN  /\ Len(bag) = 1
            /\ bag[1].options \in PopulateRaiseBags
            /\ bag[1].method = reach.operation
            /\ bag[1].args = reach.args
            /\ bag[1].options.populate = reach.populate
            /\ bag[1].options.raiseException = reach.raiseException

C11_Witness ==
    /\ pc = "settled"
    /\ svcCall.method = "findOne"
    /\ svcCall.args = <<1, "false", "true">>
    /\ repoCall.args = <<1, "false", "true">>
    /\ BagCallFor(svcCall)[1].method = "findById"
    /\ BagCallFor(svcCall)[1].options.raiseException = "true"
    /\ svcOutcome.kind = "error"

----------------------------------------------------------------------------
(* Concurrent callers of one service instance.  A call runs its method     *)
(* body, which invokes the repository, and suspends; repository promises   *)
(* settle in any order, each service promise with the one it returned.     *)

callVars == <<storeBefore, pc, svcCall, repoCall, repoOutcome, svcOutcome,
              svcCalls, repoCalls>>

ConcurrentOptions ==
    {Undefined,
     [bag |-> "object", populate |-> "unset", raiseException |-> "true",
      transaction |-> "tx"]}

\* The repository promise caller i's method returned, as a place in the
\* sequence of issued invocations: a caller that takes whichever is newest.
Returned_latest(i, log) == Len(log)

\* The repository promise caller i's method returned: the one its own body
\* created.
Returned(i, log) == CHOOSE k \in DOMAIN log : log[k].caller = i

\* The callers whose service promise settles when issued invocation k does.
Awaiting(k, log, cs) ==
    {i \in DOMAIN cs : cs[i].outcome = NoOutcome /\ Returned(i, log) = k}

\* Another caller may call while earlier calls are still pending.
CanIssue == Len(calls) < MaxPending

\* A caller invokes a method: its body runs to the return statement,
\* invoking the repository held by the instance.
Issue(method, args, options, invocations) ==
    /\ calls' = Append(calls, [call |-> Invocation(method, args, options),
                               outcome |-> NoOutcome])
    /\ issued' = issued \o
            [n \in 1..Len(invocations) |->
                [invocation |-> invocations[n],
                 caller |-> Len(calls) + 1,
                 target |-> service.repository,
                 outcome |-> NoOutcome]]
    /\ service' = AfterCall(service)
    /\ UNCHANGED <<store, injected, callVars, uowVars>>

ConcurrentCreate ==
    /\ CanIssue
    /\ \E createDto \in Vals :
           Issue("create", <<createDto>>, Undefined, create(createDto, Undefined))

ConcurrentFindAll ==
    /\ CanIssue
    /\ Issue("findAll", <<>>, Undefined, findAll(Undefined))

ConcurrentFindMany ==
    /\ CanIssue
    /\ \E filters \in {{<<"val", 1>>}} :
           Issue("findMany", <<filters>>, Undefined, findMany(filters, Undefined))

ConcurrentFindOne ==
    /\ CanIssue
    /\ \E id \in Ids, options \in ConcurrentOptions :
           Issue("findOne", <<id>>, options, findOne(id, options))

ConcurrentFindOneBy ==
    /\ CanIssue
    /\ \E filters \in {{<<"val", 2>>}} :
           Issue("findOneBy", <<filters>>, Undefined, findOneBy(filters, Undefined))

ConcurrentUpdate ==
    /\ CanIssue
    /\ \E id \in Ids, updateDto \in {2} :
           Issue("update", <<id, updateDto>>, Undefined, update(id, updateDto, Undefined))

ConcurrentDelete ==
    /\ CanIssue
    /\ \E id \in Ids :
           Issue("delete", <<id>>, Undefined, delete(id, Undefined))

ConcurrentDeleteMany ==
    /\ CanIssue
    /\ \E ids \in {{1}} :
           Issue("deleteMany", <<ids>>, Undefined, deleteMany(ids, Undefined))

ConcurrentFindByPagination ==
    /\ CanIssue
    /\ \E searchRequest \in {[page |-> 1, limit |-> 1, sortBy |-> "unset",
                              sortOrder |-> "asc", search |-> Unset, filters |-> {}]} :
           Issue("findByPagination", <<searchRequest>>, Undefined,
                 findByPagination(searchRequest, Undefined))

\* Issued invocation k settles with `outcome`, and with it the service
\* promise of whoever returned it.
Settle(k, outcome) ==
    /\ issued' = [issued EXCEPT ![k].outcome = outcome]
    /\ calls' = [i \in DOMAIN calls |->
                    IF i \in Awaiting(k, issued, calls)
                    THEN [calls[i] EXCEPT !.outcome = ServiceResult(outcome)]
                    ELSE calls[i]]

ConcurrentSettles ==
    \E k \in DOMAIN issued :
        /\ issued[k].outcome = NoOutcome
        /\ LET r == Execute(issued[k].invocation, store)
           IN  /\ store' = r.store
               /\ Settle(k, r.outcome)
        /\ UNCHANGED <<service, injected, callVars, uowVars>>

ConcurrentFails ==
    \E k \in DOMAIN issued :
        /\ issued[k].outcome = NoOutcome
        /\ Settle(k, Err("AdapterError"))
        /\ UNCHANGED <<store, service, injected, callVars, uowVars>>

InitConcurrent ==
    /\ store = [i \in Ids |-> IF i = 1 THEN 1 ELSE NoEntity]
    /\ storeBefore = store
    /\ ServiceInit
    /\ UowInit
    /\ injected \in Repositories
    /\ service = constructor(injected)
    /\ calls = <<>>
    /\ issued = <<>>

NextConcurrent ==
    \/ ConcurrentCreate
    \/ ConcurrentFindAll
    \/ ConcurrentFindMany
    \/ ConcurrentFindOne
    \/ ConcurrentFindOneBy
    \/ ConcurrentUpdate
    \/ ConcurrentDelete
    \/ ConcurrentDeleteMany
    \/ ConcurrentFindByPagination
    \/ ConcurrentSettles
    \/ ConcurrentFails

SpecConcurrent == InitConcurrent /\ [][NextConcurrent]_vars

----------------------------------------------------------------------------
(* Claims about the service instance, checked under SpecConcurrent *)

\* C12: the repository reference the constructor captured is never
\* reassigned: after any calls, settled or failed or pending, the instance
\* holds the repository it was constructed with, and every delegated call
\* went to it.
C12_RepositoryKept ==
    /\ service.repository = injected
    /\ \A k \in DOMAIN issued : issued[k].target = injected

C12_Witness ==
    /\ injected = "repositoryA"
    /\ service.repository = "repositoryA"
    /\ Len(issued) = 2
    /\ issued[1].target = "repositoryA"
    /\ issued[2].target = "repositoryA"
    /\ issued[1].outcome.kind = "error"
    /\ issued[2].outcome.kind = "entity"

\* C13: with calls interleaved on one instance, repository calls are issued
\* in the order the service calls were made, each with its own caller's
\* arguments, and each caller gets the outcome of its own repository call,
\* in whatever order the outcomes arrive; the instance keeps no state.
C13_NoCrossTalk ==
    /\ service = constructor(injected)
    /\ Len(issued) = Len(calls)
    /\ \A i \in DOMAIN calls :
            /\ issued[i].caller = i
            /\ issued[i].invocation.method = RepositoryMethodOf(calls[i].call.method)
            /\ issued[i].invocation.args = calls[i].call.args
            /\ calls[i].outcome.kind = issued[i].outcome.kind
            /\ calls[i].outcome.val = issued[i].outcome.val

\* The second caller has its outcome while the first is still waiting, and
\* then the first gets its own.
C13_Witness ==
    /\ Len(calls) = 2
    /\ calls[1].call.method = "findOne"
    /\ calls[2].call.method = "create"
    /\ calls[2].outcome.kind = "entity"
    /\ issued[2].outcome.kind = "entity"
    /\ calls[1].outcome.kind = "none"
    /\ issued[1].outcome.kind = "none"

====
